---- MODULE Spec2Model ----
(***************************************************************************)
(* Outlook MCP server: the webhook receivers of src/api/index.ts with the  *)
(* event cache of src/api/lib/kv-helpers.ts, and the Graph client of       *)
(* src/api/MicrosoftService.ts.                                            *)
(*                                                                         *)
(* Time is counted in seconds.  The KV namespace is modelled by the time   *)
(* each entry still has to live: put with expirationTtl n creates an entry *)
(* that a get returns for the next n seconds and no longer afterwards.     *)
(***************************************************************************)
EXTENDS Integers, Sequences, FiniteSets, TLC

VARIABLES
  cache,      \* env.MICROSOFT_EVENT_CACHE: key -> [value, expires, ttl]
  since,      \* history: <<name, changeType, eventId>> -> seconds since it was last emitted
  last,       \* the request handled by the latest step, with what the handler did
  svc,        \* MicrosoftService instances, one per tool invocation
  pc,         \* position of each invocation inside makeRequest
  calls,      \* history: the fetches each invocation has issued, in order
  result,     \* what makeRequest gave its caller
  minted,     \* token endpoint: number of access tokens issued so far
  started,    \* history: the session's latest credentials when each invocation began
  pager,      \* the getUserCalendarEvents call: position, makeRequest calls, events
  gate,       \* the latest request to the router and how far it got
  race        \* calendar-notify handlers running at the same time, each at its await

webVars == <<cache, since, last>>
tokVars == <<svc, pc, calls, result, minted, started, pager>>
otherVars == <<gate, race>>
vars == <<cache, since, last, svc, pc, calls, result, minted, started, pager, gate, race>>

-----------------------------------------------------------------------------
(* JavaScript values *)

Undefined == "undefined"
Null == "null"

\* if (x), !x on a value that is a string, null or undefined
Truthy(x) == x \notin {Undefined, Null, ""}

\* a ?? b
Coalesce(a, b) == IF a \in {Undefined, Null} THEN b ELSE a

\* JSON.stringify of an object: some non-empty text; only its truthiness is used
JSONstringify(obj) == "{json}"

Min(a, b) == IF a < b THEN a ELSE b

-----------------------------------------------------------------------------
(* Program constants *)

DEBOUNCE_TTL == 120

MICROSOFT_WEBHOOK_SECRET == "s3cret"

ChangeTypes == {"created", "updated", "deleted"}

-----------------------------------------------------------------------------
(* Bounds *)

\* longest body.value of a request of the notification stream
MaxBatch == 2

\* longest body.value of a request in SpecHook
MaxHookBatch == 2

\* seconds that pass in one Tick
TickStep == 60

\* tool invocations of one session
MaxCalls == 2

\* pages the Graph listing serves at most
MaxPages == 3

\* cache entries up to which SpecAccounts takes requests
MaxEntries == 2

\* calendar-notify requests being handled at the same time
MaxRacers == 2

-----------------------------------------------------------------------------
(* The KV namespace (env.MICROSOFT_EVENT_CACHE) *)

ttlUndefined == [kind |-> "undefined", n |-> 0]
ttlNull == [kind |-> "null", n |-> 0]
ttlNumber(n) == [kind |-> "number", n |-> n]

KvGet(kv, key) == IF key \in DOMAIN kv THEN kv[key].value ELSE Null

\* options.expirationTtl: a number of seconds, or undefined for no expiration
KvPut(kv, key, value, expirationTtl) ==
  LET entry == IF expirationTtl.kind = "number"
               THEN [value |-> value, expires |-> TRUE, ttl |-> expirationTtl.n]
               ELSE [value |-> value, expires |-> FALSE, ttl |-> 0]
  IN  [k \in DOMAIN kv \cup {key} |-> IF k = key THEN entry ELSE kv[k]]

\* d seconds pass: entries whose time to live is used up are gone
KvElapse(kv, d) ==
  LET keep == {k \in DOMAIN kv : ~kv[k].expires \/ kv[k].ttl > d}
  IN  [k \in keep |-> IF kv[k].expires THEN [kv[k] EXCEPT !.ttl = @ - d] ELSE kv[k]]

-----------------------------------------------------------------------------
(* src/api/lib/kv-helpers.ts *)

CacheKey(serverName, eventType, eventId) ==
  serverName \o ":" \o eventType \o ":" \o eventId

\* fault: the key is built in another order than putEventCache builds it
getEventCache_otherKey(kv, serverName, eventType, eventId) ==
  KvGet(kv, CacheKey(serverName, eventId, eventType))

getEventCache(kv, serverName, eventType, eventId) ==
  KvGet(kv, CacheKey(serverName, eventType, eventId))

\* fault: the expirationTtl argument is ignored and the default used
putEventCache_defaultTtl(kv, serverName, eventType, eventId, eventData, expirationTtl) ==
  KvPut(kv, CacheKey(serverName, eventType, eventId), eventData, ttlNumber(60))

\* fault: an explicit null is handled like an omitted argument
putEventCache_nullAsOmitted(kv, serverName, eventType, eventId, eventData, expirationTtl) ==
  KvPut(kv, CacheKey(serverName, eventType, eventId), eventData,
        IF expirationTtl.kind \in {"undefined", "null"} THEN ttlNumber(60)
        ELSE expirationTtl)

putEventCache(kv, serverName, eventType, eventId, eventData, expirationTtl) ==
  KvPut(kv, CacheKey(serverName, eventType, eventId), eventData,
        IF expirationTtl.kind = "undefined" THEN ttlNumber(60)
        ELSE IF expirationTtl.kind = "null" THEN ttlUndefined
        ELSE expirationTtl)

-----------------------------------------------------------------------------
(* src/api/lib/microsoft-auth.ts and the routes it guards *)

\* a request header: absent, or a text given as its first seven characters and
\* the rest
NoHeader == [present |-> FALSE, head |-> "", tail |-> ""]
Header(head, tail) == [present |-> TRUE, head |-> head, tail |-> tail]

\* !header
Falsy(header) == ~header.present \/ (header.head = "" /\ header.tail = "")

\* header.startsWith("Bearer ")
startsWithBearer(header) == header.head = "Bearer "

HTTPException(status, message) ==
  [status |-> status, message |-> message, wwwAuthenticate |-> Undefined]

\* fault: any header that is not empty passes
microsoftBearerTokenAuthMiddleware_anyHeader(authHeader, refreshHeader) ==
  IF Falsy(authHeader)
  THEN [thrown |-> <<HTTPException(401, "Missing or invalid access token")>>, props |-> <<>>]
  ELSE [thrown |-> <<>>,
        props |-> <<[accessToken |-> authHeader.tail,
                     refreshToken |-> IF Truthy(refreshHeader) THEN refreshHeader ELSE ""]>>]

\* the middleware throws, or sets the props and calls next()
microsoftBearerTokenAuthMiddleware(authHeader, refreshHeader) ==
  IF Falsy(authHeader) \/ ~startsWithBearer(authHeader)
  THEN [thrown |-> <<HTTPException(401, "Missing or invalid access token")>>, props |-> <<>>]
  ELSE [thrown |-> <<>>,
        props |-> <<[accessToken |-> authHeader.tail,
                     refreshToken |-> IF Truthy(refreshHeader) THEN refreshHeader ELSE ""]>>]

\* the response the application's error handler makes of an exception
onError(e) ==
  IF e.status = 401
  THEN [status |-> 401, error |-> "invalid_token",
        error_description |-> IF Truthy(e.message) THEN e.message
                              ELSE "The access token is invalid or expired",
        wwwAuthenticate |-> IF Truthy(e.wwwAuthenticate) THEN e.wwwAuthenticate
                            ELSE "Bearer error=\"invalid_token\""]
  ELSE [status |-> 500, error |-> "server_error", error_description |-> Undefined,
        wwwAuthenticate |-> Undefined]

\* the notification endpoints under /webhooks
Receivers == {"email-notify", "email-lifecycle", "calendar-notify", "calendar-lifecycle"}

\* the path patterns the middleware is registered for, as path segments
Uses ==
  {<<"sse", "*">>, <<"mcp">>} \cup {<<"webhooks", receiver, "process">> : receiver \in Receivers}

\* a pattern matches a path segment by segment, a final * any remainder
Matches(pattern, path) ==
  LET n == Len(pattern)
  IN  IF n > 0 /\ pattern[n] = "*"
      THEN /\ Len(path) >= n - 1
           /\ \A k \in 1..(n - 1) : path[k] = pattern[k]
      ELSE /\ Len(path) = n
           /\ \A k \in 1..n : path[k] = pattern[k]

\* a request is routed: through the middleware where one is registered for its
\* path, then to the handler of the path
Dispatch(path, authHeader, refreshHeader) ==
  LET guarded == \E pattern \in Uses : Matches(pattern, path)
      mw == microsoftBearerTokenAuthMiddleware(authHeader, refreshHeader)
  IN  IF guarded /\ mw.thrown # <<>>
      THEN [path |-> path, authorization |-> authHeader, refresh |-> refreshHeader,
            guarded |-> TRUE, reached |-> FALSE, props |-> <<>>,
            resp |-> <<onError(mw.thrown[1])>>]
      ELSE [path |-> path, authorization |-> authHeader, refresh |-> refreshHeader,
            guarded |-> guarded, reached |-> TRUE,
            props |-> IF guarded THEN mw.props ELSE <<>>, resp |-> <<>>]

-----------------------------------------------------------------------------
(* POST /webhooks/calendar-notify: the loop over body.value *)

\* what the handler did with one item of body.value; raised names the KV
\* operation that rejected, if one did
Effect(bodyValue, st, reads, put, pushed) ==
  [item |-> bodyValue, before |-> st.cache, reads |-> reads,
   put |-> put, pushed |-> pushed, raised |-> "none"]

\* the KV namespace during a request: op "get" or "put" rejects from the item
\* numbered from on, op "none" never
NoFault == [op |-> "none", from |-> 0]

\* the KV operation op of the item the loop is at rejects
Fails(st, op) == st.fault.op = op /\ Len(st.trace) + 1 >= st.fault.from

\* an awaited KV operation rejects: the exception leaves the loop and the handler
Raise(bodyValue, st, reads, op, pushed) ==
  [st EXCEPT !.raised = TRUE,
             !.trace = Append(@, [Effect(bodyValue, st, reads, FALSE, pushed)
                                    EXCEPT !.raised = op])]

\* fault: a suppressed item renews the entry that suppressed it
Continue_refresh(bodyValue, st, reads) ==
  LET hit == reads[Len(reads)]
  IN  [st EXCEPT
         !.cache = IF reads = <<>> THEN @
                   ELSE KvPut(@, hit, @[hit].value, ttlNumber(DEBOUNCE_TTL)),
         !.trace = Append(@, Effect(bodyValue, st, reads, FALSE, FALSE))]

\* continue: nothing is pushed or put for this item
Continue(bodyValue, st, reads) ==
  [st EXCEPT !.trace = Append(@, Effect(bodyValue, st, reads, FALSE, FALSE))]

CalendarAccept(bodyValue, name, st, reads) ==
  [st EXCEPT
     !.cache = putEventCache(st.cache, Coalesce(name, "unknown"), bodyValue.changeType,
                             bodyValue.id, JSONstringify(bodyValue),
                             ttlNumber(DEBOUNCE_TTL)),
     !.events = Append(st.events,
                       [eventId |-> bodyValue.id, eventType |-> bodyValue.changeType]),
     !.subscriptionId = IF ~Truthy(st.subscriptionId) THEN bodyValue.subscriptionId
                        ELSE st.subscriptionId,
     !.trace = Append(st.trace, Effect(bodyValue, st, reads, TRUE, TRUE))]

\* fault: the clientState check is left out
Rejected_never(bodyValue) == FALSE

\* the clientState check every receiver makes first
Rejected(bodyValue) == bodyValue.clientState # MICROSOFT_WEBHOOK_SECRET

\* fault: updated is not checked against deleted
CrossChecks_updatedOnlyCreated(eventType) ==
  IF eventType = "updated" THEN <<"created">>
  ELSE IF eventType = "created" THEN <<"updated">>
  ELSE IF eventType = "deleted" THEN <<"updated">>
  ELSE <<>>

\* fault: created is not checked against updated
CrossChecks_createdUnchecked(eventType) ==
  IF eventType = "updated" THEN <<"created", "deleted">>
  ELSE IF eventType = "deleted" THEN <<"updated">>
  ELSE <<>>

\* fault: deleted is not checked against updated
CrossChecks_deletedUnchecked(eventType) ==
  IF eventType = "updated" THEN <<"created", "deleted">>
  ELSE IF eventType = "created" THEN <<"updated">>
  ELSE <<>>

\* fault: created and deleted are checked against each other as well
CrossChecks_createdVsDeleted(eventType) ==
  IF eventType = "updated" THEN <<"created", "deleted">>
  ELSE IF eventType = "created" THEN <<"updated", "deleted">>
  ELSE IF eventType = "deleted" THEN <<"updated", "created">>
  ELSE <<>>

\* fault: no change type is checked against another
CrossChecks_none(eventType) == <<>>

\* the other change types whose cache entry suppresses an incoming eventType,
\* in the order the handler looks them up
CrossChecks(eventType) ==
  IF eventType = "updated" THEN <<"created", "deleted">>
  ELSE IF eventType = "created" THEN <<"updated">>
  ELSE IF eventType = "deleted" THEN <<"updated">>
  ELSE <<>>

\* fault: the self-duplicate lookup is left out
Lookups_noSelfCheck(eventType) == CrossChecks(eventType)

\* all getEventCache calls for one item: its own change type first
Lookups(eventType) == <<eventType>> \o CrossChecks(eventType)

\* the first lookup that finds an entry, 0 when none does
FirstHit(kv, serverName, lookups, eventId) ==
  LET hits == {h \in 1..Len(lookups) :
                 Truthy(getEventCache(kv, serverName, lookups[h], eventId))}
  IN  IF hits = {} THEN 0 ELSE CHOOSE h \in hits : \A g \in hits : h <= g

CalendarItem(bodyValue, name, st) ==
  LET eventId == bodyValue.id
      eventType == bodyValue.changeType
      serverName == Coalesce(name, "unknown")
      lookups == Lookups(eventType)
      h == FirstHit(st.cache, serverName, lookups, eventId)
      keys(n) == [k \in 1..n |-> CacheKey(serverName, lookups[k], eventId)]
  IN  IF st.raised THEN st
      ELSE IF Rejected(bodyValue) THEN Continue(bodyValue, st, <<>>)
      ELSE IF ~Truthy(eventId) THEN Continue(bodyValue, st, <<>>)
      ELSE IF Fails(st, "get") THEN Raise(bodyValue, st, keys(1), "get", FALSE)
      ELSE IF h > 0 THEN Continue(bodyValue, st, keys(h))
      ELSE IF Fails(st, "put") THEN Raise(bodyValue, st, keys(Len(lookups)), "put", TRUE)
      ELSE CalendarAccept(bodyValue, name, st, keys(Len(lookups)))

RECURSIVE CalendarLoop(_, _, _, _)
CalendarLoop(bodyValues, i, name, st) ==
  IF i > Len(bodyValues) THEN st
  ELSE CalendarLoop(bodyValues, i + 1, name, CalendarItem(bodyValues[i], name, st))

-----------------------------------------------------------------------------
(* The WebhookResponse objects the receivers return *)

Handshake(validationToken) ==
  [http |-> 200, reqResponseCode |-> 200, reqResponseContent |-> validationToken,
   reqResponseContentType |-> "text", processData |-> <<>>]

\* fault: a response without processData reports another code
Acknowledge_emptyCode(processData) ==
  [http |-> 200, reqResponseCode |-> IF processData = <<>> THEN 204 ELSE 202,
   reqResponseContent |-> "{\"ok\":true}", reqResponseContentType |-> "json",
   processData |-> processData]

Acknowledge(processData) ==
  [http |-> 200, reqResponseCode |-> 202, reqResponseContent |-> "{\"ok\":true}",
   reqResponseContentType |-> "json", processData |-> processData]

\* onError for an exception that is no 401
ServerError ==
  [http |-> 500, reqResponseCode |-> 0, reqResponseContent |-> "{\"error\":\"server_error\"}",
   reqResponseContentType |-> "json", processData |-> <<>>]

\* fault: processData is attached whatever was collected
Reply_always(name, subscriptionId, events) ==
  Acknowledge(<<[name |-> name, subscriptionId |-> subscriptionId, events |-> events]>>)

\* the common tail of the four receivers
Reply(name, subscriptionId, events) ==
  IF ~Truthy(subscriptionId) \/ ~Truthy(name) \/ Len(events) = 0
  THEN Acknowledge(<<>>)
  ELSE Acknowledge(<<[name |-> name, subscriptionId |-> subscriptionId,
                      events |-> events]>>)

\* a request body: JSON text with a value array, or something c.req.json() rejects
Json(value) == [json |-> TRUE, value |-> value]
Malformed == [json |-> FALSE, value |-> <<>>]

EmptyMap == [k \in {} |-> 0]

loopStart(kv) ==
  [cache |-> kv, events |-> <<>>, subscriptionId |-> Undefined, trace |-> <<>>,
   fault |-> NoFault, raised |-> FALSE]

\* what a receiver did: the response, the cache afterwards, whether the body was
\* parsed, and the effect of each item
Outcome(resp, kv, parsed, trace) ==
  [resp |-> resp, cache |-> kv, parsed |-> parsed, trace |-> trace]

\* the handler while the KV namespace behaves as fault says: an exception that
\* leaves it is answered by onError
CalendarNotifyDuring(fault, kv, validationToken, name, body) ==
  IF Truthy(validationToken) THEN Outcome(Handshake(validationToken), kv, FALSE, <<>>)
  ELSE IF ~body.json THEN Outcome(ServerError, kv, FALSE, <<>>)
  ELSE LET st == CalendarLoop(body.value, 1, name, [loopStart(kv) EXCEPT !.fault = fault])
       IN  IF st.raised THEN Outcome(ServerError, st.cache, TRUE, st.trace)
           ELSE Outcome(Reply(name, st.subscriptionId, st.events), st.cache, TRUE,
                        st.trace)

CalendarNotifyHandler(kv, validationToken, name, body) ==
  CalendarNotifyDuring(NoFault, kv, validationToken, name, body)

-----------------------------------------------------------------------------
(* POST /webhooks/email-notify *)

EmailPush(bodyValue, st) ==
  [st EXCEPT !.events = Append(@, bodyValue.id),
             !.subscriptionId = IF ~Truthy(@) THEN bodyValue.subscriptionId ELSE @,
             !.trace = Append(@, Effect(bodyValue, st, <<>>, FALSE, TRUE))]

\* fault: an item without a resource id still sets the subscriptionId
EmailItem_idlessSubscription(bodyValue, st) ==
  IF Rejected(bodyValue) THEN Continue(bodyValue, st, <<>>)
  ELSE IF ~Truthy(bodyValue.id)
    THEN [Continue(bodyValue, st, <<>>) EXCEPT
            !.subscriptionId = IF ~Truthy(@) THEN bodyValue.subscriptionId ELSE @]
  ELSE EmailPush(bodyValue, st)

EmailItem(bodyValue, st) ==
  IF Rejected(bodyValue) THEN Continue(bodyValue, st, <<>>)
  ELSE IF ~Truthy(bodyValue.id) THEN Continue(bodyValue, st, <<>>)
  ELSE EmailPush(bodyValue, st)

RECURSIVE EmailLoop(_, _, _)
EmailLoop(bodyValues, i, st) ==
  IF i > Len(bodyValues) THEN st
  ELSE EmailLoop(bodyValues, i + 1, EmailItem(bodyValues[i], st))

\* EmailProcessData carries the ids as emailIds
EmailReply(name, subscriptionId, emailIds) ==
  IF ~Truthy(subscriptionId) \/ ~Truthy(name) \/ Len(emailIds) = 0
  THEN Acknowledge(<<>>)
  ELSE Acknowledge(<<[name |-> name, subscriptionId |-> subscriptionId,
                      emailIds |-> emailIds]>>)

EmailNotifyHandler(kv, validationToken, name, body) ==
  IF Truthy(validationToken) THEN Outcome(Handshake(validationToken), kv, FALSE, <<>>)
  ELSE IF ~body.json THEN Outcome(ServerError, kv, FALSE, <<>>)
  ELSE LET st == EmailLoop(body.value, 1, loopStart(kv))
       IN  Outcome(EmailReply(name, st.subscriptionId, st.events), st.cache, TRUE, st.trace)

-----------------------------------------------------------------------------
(* POST /webhooks/email-lifecycle and POST /webhooks/calendar-lifecycle *)

LifecyclePush(bodyValue, st) ==
  [st EXCEPT !.events = Append(@, bodyValue.lifecycleEvent),
             !.subscriptionId = IF ~Truthy(@) THEN bodyValue.subscriptionId ELSE @,
             !.trace = Append(@, Effect(bodyValue, st, <<>>, FALSE, TRUE))]

\* fault: the "missed" items are pushed like the others
LifecycleItem_missedKept(bodyValue, st) ==
  IF Rejected(bodyValue) THEN Continue(bodyValue, st, <<>>)
  ELSE IF ~Truthy(bodyValue.lifecycleEvent) THEN Continue(bodyValue, st, <<>>)
  ELSE LifecyclePush(bodyValue, st)

\* fault: lifecycle items are deduplicated through the event cache
LifecycleItem_deduped(bodyValue, st) ==
  IF Rejected(bodyValue) THEN Continue(bodyValue, st, <<>>)
  ELSE IF ~Truthy(bodyValue.lifecycleEvent) THEN Continue(bodyValue, st, <<>>)
  ELSE IF bodyValue.lifecycleEvent = "missed" THEN Continue(bodyValue, st, <<>>)
  ELSE IF Truthy(getEventCache(st.cache, "unknown", bodyValue.lifecycleEvent,
                               bodyValue.subscriptionId))
    THEN Continue(bodyValue, st,
                  <<CacheKey("unknown", bodyValue.lifecycleEvent, bodyValue.subscriptionId)>>)
  ELSE [LifecyclePush(bodyValue, st) EXCEPT
          !.cache = putEventCache(st.cache, "unknown", bodyValue.lifecycleEvent,
                                  bodyValue.subscriptionId, JSONstringify(bodyValue),
                                  ttlNumber(DEBOUNCE_TTL))]

LifecycleItem(bodyValue, st) ==
  IF Rejected(bodyValue) THEN Continue(bodyValue, st, <<>>)
  ELSE IF ~Truthy(bodyValue.lifecycleEvent) THEN Continue(bodyValue, st, <<>>)
  ELSE IF bodyValue.lifecycleEvent = "missed" THEN Continue(bodyValue, st, <<>>)
  ELSE LifecyclePush(bodyValue, st)

RECURSIVE LifecycleLoop(_, _, _)
LifecycleLoop(bodyValues, i, st) ==
  IF i > Len(bodyValues) THEN st
  ELSE LifecycleLoop(bodyValues, i + 1, LifecycleItem(bodyValues[i], st))

EmailLifecycleHandler(kv, validationToken, name, body) ==
  IF Truthy(validationToken) THEN Outcome(Handshake(validationToken), kv, FALSE, <<>>)
  ELSE IF ~body.json THEN Outcome(ServerError, kv, FALSE, <<>>)
  ELSE LET st == LifecycleLoop(body.value, 1, loopStart(kv))
       IN  Outcome(Reply(name, st.subscriptionId, st.events), st.cache, TRUE, st.trace)

\* fault: the body is parsed before the validationToken is looked at
CalendarLifecycleHandler_parseFirst(kv, validationToken, name, body) ==
  IF ~body.json THEN Outcome(ServerError, kv, FALSE, <<>>)
  ELSE IF Truthy(validationToken) THEN Outcome(Handshake(validationToken), kv, TRUE, <<>>)
  ELSE LET st == LifecycleLoop(body.value, 1, loopStart(kv))
       IN  Outcome(Reply(name, st.subscriptionId, st.events), st.cache, TRUE, st.trace)

CalendarLifecycleHandler(kv, validationToken, name, body) ==
  IF Truthy(validationToken) THEN Outcome(Handshake(validationToken), kv, FALSE, <<>>)
  ELSE IF ~body.json THEN Outcome(ServerError, kv, FALSE, <<>>)
  ELSE LET st == LifecycleLoop(body.value, 1, loopStart(kv))
       IN  Outcome(Reply(name, st.subscriptionId, st.events), st.cache, TRUE, st.trace)

-----------------------------------------------------------------------------
(* Inputs *)

RECURSIVE SeqsUpTo(_, _)
SeqsUpTo(S, n) ==
  IF n = 0 THEN {<<>>}
  ELSE LET shorter == SeqsUpTo(S, n - 1)
       IN  shorter \cup {Append(q, x) : q \in {r \in shorter : Len(r) = n - 1}, x \in S}

\* the notification stream: valid change notifications of one account
StreamItems ==
  [clientState : {MICROSOFT_WEBHOOK_SECRET}, subscriptionId : {"S1"},
   changeType : ChangeTypes, id : {"E1", "E2"}]

StreamBodies == {Json(v) : v \in SeqsUpTo(StreamItems, MaxBatch)}

\* one request of any shape
HookTokens == {Null, "", "abc123"}
HookNames == {Undefined, "A"}

HookChangeItems ==
  [clientState : {MICROSOFT_WEBHOOK_SECRET, "wrong"}, subscriptionId : {"S1", "S2"},
   changeType : ChangeTypes, id : {Undefined, "E1"}]

HookLifecycleItems ==
  [clientState : {MICROSOFT_WEBHOOK_SECRET, "wrong"}, subscriptionId : {"S1", "S2"},
   lifecycleEvent : {Undefined, "missed", "subscriptionRemoved"}]

HookChangeBodies == {Malformed} \cup {Json(v) : v \in SeqsUpTo(HookChangeItems, MaxHookBatch)}
HookLifecycleBodies ==
  {Malformed} \cup {Json(v) : v \in SeqsUpTo(HookLifecycleItems, MaxHookBatch)}

-----------------------------------------------------------------------------
(* State of the receivers *)

Idle ==
  [endpoint |-> "none", validationToken |-> Null, name |-> Undefined, body |-> Json(<<>>),
   before |-> EmptyMap, sinceBefore |-> EmptyMap,
   resp |-> Acknowledge(<<>>), parsed |-> FALSE, trace |-> <<>>]

\* the notifications a calendar-notify response hands on, as <<name, changeType, eventId>>
Emitted(resp) ==
  IF resp.processData = <<>> THEN {}
  ELSE LET pd == resp.processData[1]
       IN  {<<pd.name, pd.events[i].eventType, pd.events[i].eventId>> :
              i \in 1..Len(pd.events)}

\* a request arrives at an endpoint and is handled to its response
Receive(endpoint, validationToken, name, body, out) ==
  /\ cache' = out.cache
  /\ since' = IF endpoint = "calendar-notify"
              THEN [k \in DOMAIN since \cup Emitted(out.resp) |->
                      IF k \in Emitted(out.resp) THEN 0 ELSE since[k]]
              ELSE since
  /\ last' = [endpoint |-> endpoint, validationToken |-> validationToken, name |-> name,
              body |-> body, before |-> cache, sinceBefore |-> since,
              resp |-> out.resp, parsed |-> out.parsed, trace |-> out.trace]
  /\ UNCHANGED <<tokVars, otherVars>>

\* TickStep seconds pass between two requests
Tick ==
  /\ last.endpoint = "none"
  /\ cache' = KvElapse(cache, TickStep)
  /\ since' = [k \in DOMAIN since |-> Min(since[k] + TickStep, DEBOUNCE_TTL)]
  /\ last' = Idle
  /\ UNCHANGED <<tokVars, otherVars>>

\* the response has gone out: the next request can arrive
Sent ==
  /\ last.endpoint # "none"
  /\ last' = Idle
  /\ UNCHANGED <<cache, since>>
  /\ UNCHANGED <<tokVars, otherVars>>

CalendarNotify ==
  /\ last.endpoint = "none"
  /\ \E body \in StreamBodies :
       Receive("calendar-notify", Null, "A", body,
               CalendarNotifyHandler(cache, Null, "A", body))

-----------------------------------------------------------------------------
(* One request of any shape, against the cache an earlier notification left *)

HookSeeds ==
  {[cache |-> EmptyMap, since |-> EmptyMap]} \cup
  {[cache |-> putEventCache(EmptyMap, "A", t, "E1", JSONstringify(t), ttlNumber(DEBOUNCE_TTL)),
    since |-> [k \in {<<"A", t, "E1">>} |-> 0]] : t \in ChangeTypes}

PostCalendarNotify ==
  /\ last.endpoint = "none"
  /\ \E tok \in HookTokens, name \in HookNames, body \in HookChangeBodies :
       Receive("calendar-notify", tok, name, body, CalendarNotifyHandler(cache, tok, name, body))

PostEmailNotify ==
  /\ last.endpoint = "none"
  /\ \E tok \in HookTokens, name \in HookNames, body \in HookChangeBodies :
       Receive("email-notify", tok, name, body, EmailNotifyHandler(cache, tok, name, body))

PostEmailLifecycle ==
  /\ last.endpoint = "none"
  /\ \E tok \in HookTokens, name \in HookNames, body \in HookLifecycleBodies :
       Receive("email-lifecycle", tok, name, body,
               EmailLifecycleHandler(cache, tok, name, body))

PostCalendarLifecycle ==
  /\ last.endpoint = "none"
  /\ \E tok \in HookTokens, name \in HookNames, body \in HookLifecycleBodies :
       Receive("calendar-lifecycle", tok, name, body,
               CalendarLifecycleHandler(cache, tok, name, body))

\* requests for several accounts: the x-mcp-name header is absent or any text, the
\* resource id is any text
AccountNames == {Undefined, "unknown", "A", "A:created"}

AccountItems ==
  [clientState : {MICROSOFT_WEBHOOK_SECRET}, subscriptionId : {"S1"},
   changeType : ChangeTypes, id : {"E1", "updated:E1"}]

\* the notifications a run of the handler accepted (pushed and cached), as
\* <<x-mcp-name, changeType, eventId>>
AcceptedBy(name, out) ==
  {<<name, out.trace[j].item.changeType, out.trace[j].item.id>> :
     j \in {i \in DOMAIN out.trace : out.trace[i].pushed}}

\* a change notification of one item arrives for some account; since records the
\* acceptances here, emitted or not
PostForAccount ==
  /\ last.endpoint = "none"
  /\ Cardinality(DOMAIN cache) < MaxEntries
  /\ \E name \in AccountNames, item \in AccountItems :
       LET body == Json(<<item>>)
           out == CalendarNotifyHandler(cache, Null, name, body)
           accepted == AcceptedBy(name, out)
       IN  /\ cache' = out.cache
           /\ since' = [k \in DOMAIN since \cup accepted |->
                          IF k \in accepted THEN 0 ELSE since[k]]
           /\ last' = [endpoint |-> "calendar-notify", validationToken |-> Null,
                       name |-> name, body |-> body, before |-> cache,
                       sinceBefore |-> since, resp |-> out.resp, parsed |-> out.parsed,
                       trace |-> out.trace]
  /\ UNCHANGED <<tokVars, otherVars>>

\* calls of putEventCache with each form of the expirationTtl argument, one event
\* per form
TtlCases ==
  {<<"E1", ttlUndefined>>, <<"E2", ttlNull>>, <<"E3", ttlNumber(60)>>,
   <<"E4", ttlNumber(90)>>, <<"E5", ttlNumber(DEBOUNCE_TTL)>>}

\* putEventCache is called for one of the cases; since records the call
PutEvent ==
  /\ last.endpoint = "none"
  /\ \E case \in TtlCases :
       /\ cache' = putEventCache(cache, "A", "created", case[1],
                                 JSONstringify("created"), case[2])
       /\ since' = [k \in DOMAIN since \cup {<<"A", "created", case[1]>>} |->
                      IF k = <<"A", "created", case[1]>> THEN 0 ELSE since[k]]
  /\ UNCHANGED last
  /\ UNCHANGED <<tokVars, otherVars>>

\* requests to the router
Paths ==
  {<<"mcp">>, <<"sse", "message">>}
    \cup {<<"webhooks", receiver, "process">> : receiver \in Receivers}
    \cup {<<"webhooks", receiver>> : receiver \in Receivers}

AuthorizationHeaders ==
  {NoHeader, Header("", ""), Header("Bearer ", "at0"), Header("Bearer ", ""),
   Header("Bearer", ""), Header("bearer ", "at0"), Header("Basic x", ""),
   Header("BearerX", "at0")}

RefreshHeaders == {Undefined, "", "rt0"}

NoRequest ==
  [path |-> <<>>, authorization |-> NoHeader, refresh |-> Undefined, guarded |-> FALSE,
   reached |-> FALSE, props |-> <<>>, resp |-> <<>>]

\* a request arrives at the router
Request ==
  /\ \E path \in Paths, authHeader \in AuthorizationHeaders, refreshHeader \in RefreshHeaders :
       gate' = Dispatch(path, authHeader, refreshHeader)
  /\ UNCHANGED <<webVars, tokVars, race>>

\* calendar-notify handlers whose awaits interleave: each was sent one change
\* notification of the event E1 of account A
Racers == 1..MaxRacers

RaceItems ==
  [clientState : {MICROSOFT_WEBHOOK_SECRET}, subscriptionId : {"S1"},
   changeType : ChangeTypes, id : {"E1"}]

NotArrived == [pc |-> "idle", item |-> <<>>, k |-> 0, seen |-> <<>>, pushed |-> FALSE,
               resp |-> <<>>]

\* the request of handler h arrives; the loop is at its first getEventCache
RaceArrive(h) ==
  /\ race[h].pc = "idle"
  /\ \E item \in RaceItems :
       race' = [race EXCEPT ![h] = [NotArrived EXCEPT !.pc = "get", !.item = <<item>>,
                                                      !.k = 1]]
  /\ UNCHANGED <<webVars, tokVars, gate>>

\* the getEventCache handler h awaits is answered from the cache as it is now: a
\* hit ends the item and the request, a miss leads to the next lookup or the put
RaceGet(h) ==
  /\ race[h].pc = "get"
  /\ LET bodyValue == race[h].item[1]
         lookups == Lookups(bodyValue.changeType)
         eventData == getEventCache(cache, "A", lookups[race[h].k], bodyValue.id)
         seen == Append(race[h].seen, Truthy(eventData))
     IN  race' = [race EXCEPT ![h] =
                    IF Truthy(eventData)
                    THEN [@ EXCEPT !.pc = "done", !.seen = seen,
                                   !.resp = <<Reply("A", Undefined, <<>>)>>]
                    ELSE IF race[h].k < Len(lookups)
                    THEN [@ EXCEPT !.k = @ + 1, !.seen = seen]
                    ELSE [@ EXCEPT !.pc = "put", !.seen = seen]]
  /\ UNCHANGED <<webVars, tokVars, gate>>

\* fault: the put writes only when the key is absent, and the item is accepted
\* only when it wrote
RacePut_ifAbsent(h) ==
  /\ race[h].pc = "put"
  /\ LET bodyValue == race[h].item[1]
         absent == ~Truthy(getEventCache(cache, "A", bodyValue.changeType, bodyValue.id))
     IN  /\ cache' = IF absent
                     THEN putEventCache(cache, "A", bodyValue.changeType, bodyValue.id,
                                        JSONstringify(bodyValue), ttlNumber(DEBOUNCE_TTL))
                     ELSE cache
         /\ race' = [race EXCEPT ![h] =
                       [@ EXCEPT !.pc = "done", !.pushed = absent,
                                 !.resp = <<Reply("A", bodyValue.subscriptionId,
                                                  IF absent
                                                  THEN <<[eventId |-> bodyValue.id,
                                                          eventType |-> bodyValue.changeType]>>
                                                  ELSE <<>>)>>]]
  /\ UNCHANGED <<since, last, tokVars, gate>>

\* every lookup of handler h missed: the event is pushed, the entry is put, and
\* the request is answered
RacePut(h) ==
  /\ race[h].pc = "put"
  /\ LET bodyValue == race[h].item[1]
     IN  /\ cache' = putEventCache(cache, "A", bodyValue.changeType, bodyValue.id,
                                   JSONstringify(bodyValue), ttlNumber(DEBOUNCE_TTL))
         /\ race' = [race EXCEPT ![h] =
                       [@ EXCEPT !.pc = "done", !.pushed = TRUE,
                                 !.resp = <<Reply("A", bodyValue.subscriptionId,
                                                  <<[eventId |-> bodyValue.id,
                                                     eventType |-> bodyValue.changeType]>>)>>]]
  /\ UNCHANGED <<since, last, tokVars, gate>>

\* the ways the KV namespace can fail a request
Faults == {[op |-> o, from |-> k] : o \in {"get", "put"}, k \in 1..MaxHookBatch}

\* a change notification arrives while the KV namespace rejects operations
PostCalendarNotifyOutage ==
  /\ last.endpoint = "none"
  /\ \E fault \in Faults, tok \in HookTokens, name \in HookNames, body \in HookChangeBodies :
       Receive("calendar-notify", tok, name, body,
               CalendarNotifyDuring(fault, cache, tok, name, body))

-----------------------------------------------------------------------------
(* src/api/MicrosoftService.ts: makeRequest and refreshAccessToken.  Every await *)
(* of a fetch is a step of its own; the responses are the network's choice.     *)

Invocations == 1..MaxCalls

\* this.props of the session, as the OAuth layer supplied them
props == [accessToken |-> "at0", refreshToken |-> "rt0"]

\* get microsoftService(): a new MicrosoftService on this.props at every access
microsoftService == [accessToken |-> props.accessToken, refreshToken |-> props.refreshToken]

Urls == {"/me/events/1", "/me/messages/1"}
Statuses == {200, 401, 403, 500}

\* what the token endpoint answers a refresh_token grant with
TokenStatuses == {200, 400, 401}

\* Response.ok
Ok(status) == status >= 200 /\ status <= 299

AccessToken(n) == "at" \o ToString(n)
RefreshToken(n) == "rt" \o ToString(n)

\* the JSON of a successful token response
Grant(access_token, refresh_token) ==
  [access_token |-> access_token, refresh_token |-> refresh_token]

NoResult == [kind |-> "none", status |-> 0, error |-> ""]
Returned(status) == [kind |-> "value", status |-> status, error |-> ""]
Thrown(error, status) == [kind |-> "error", status |-> status, error |-> error]

\* the listing getUserCalendarEvents reads: the url of its k-th page
ListingUrl(k) == "/users/oid/events?page=" \o ToString(k)
initialUrl == ListingUrl(1)
ListingUrls == {ListingUrl(k) : k \in 1..MaxPages}

\* a JSON object by the two properties getUserCalendarEvents reads: value is <<>>
\* when the property is absent and <<items>> when it is an array
Page(value, nextLink) == [value |-> value, nextLink |-> nextLink]

\* an object with neither property: a single entity, or a Graph error object
Object == Page(<<>>, Undefined)

PageValues == {<<>>, <<<<"a">>>>, <<<<"b", "c">>>>}

\* the server links a page to the next one or leaves @odata.nextLink out; the
\* last page it can serve has no link
NextLinks(url) ==
  {Undefined} \cup {ListingUrl(k + 1) : k \in {j \in 1..(MaxPages - 1) : ListingUrl(j) = url}}

Bodies(url) ==
  IF url \in ListingUrls THEN {Page(v, l) : v \in PageValues, l \in NextLinks(url)}
  ELSE {Object}

\* the responses the network can give a fetch of url: a status, and a body that is
\* JSON or not
Responses(url) ==
  {[status |-> s, json |-> FALSE, body |-> <<>>] : s \in Statuses} \cup
  UNION {{[status |-> s, json |-> TRUE, body |-> <<b>>] :
            b \in IF Ok(s) THEN Bodies(url) ELSE {Object}} : s \in Statuses}

\* fetch(url, {headers: {Authorization: `Bearer ${this.accessToken}`}}), not yet answered
ApiFetch(url, service) ==
  [to |-> "api", url |-> url, sent |-> service.accessToken, status |-> 0, body |-> <<>>]

\* fetch of the token endpoint with grant_type=refresh_token
TokenFetch(service) ==
  [to |-> "token", url |-> "/oauth2/v2.0/token", sent |-> service.refreshToken,
   status |-> 0, body |-> <<>>]

Answered(history, status, body) ==
  [history EXCEPT ![Len(history)].status = status, ![Len(history)].body = body]

\* the JSON the latest fetch of invocation i was answered with
Data(i) == calls[i][Len(calls[i])].body[1]

\* some exchange at the token endpoint has been refused
RefreshHasFailed ==
  \E i \in DOMAIN calls : \E k \in DOMAIN calls[i] :
    /\ calls[i][k].to = "token"
    /\ calls[i][k].status # 0
    /\ ~Ok(calls[i][k].status)

\* the numbers of the refresh tokens the token endpoint has issued
Rotations ==
  {n \in 1..minted :
     \E i \in DOMAIN calls : \E k \in DOMAIN calls[i] :
       /\ calls[i][k].to = "token"
       /\ calls[i][k].body # <<>>
       /\ calls[i][k].body[1].refresh_token = RefreshToken(n)}

\* the latest credentials the session has been issued, and whether an exchange
\* has been refused
Session ==
  [accessToken |-> IF minted = 0 THEN props.accessToken ELSE AccessToken(minted),
   refreshToken |-> IF Rotations = {} THEN props.refreshToken
                    ELSE RefreshToken(CHOOSE n \in Rotations : \A m \in Rotations : m <= n),
   failed |-> RefreshHasFailed]

\* makeRequest(url) on a service, up to its first await
Start(service, url) ==
  /\ svc' = Append(svc, service)
  /\ calls' = Append(calls, <<ApiFetch(url, service)>>)
  /\ pc' = Append(pc, "first")
  /\ result' = Append(result, NoResult)
  /\ started' = Append(started, Session)

\* a tool handler reads this.microsoftService and calls a method that makes one
\* request
Invoke(i) ==
  /\ i \notin DOMAIN pc
  /\ i = Len(pc) + 1
  /\ \E url \in Urls : Start(microsoftService, url)
  /\ UNCHANGED <<minted, pager, cache, since, last, otherVars>>

\* the first fetch is answered; the body is read only of a response that is ok
FirstResponse(i) ==
  /\ i \in DOMAIN pc /\ pc[i] = "first"
  /\ \E r \in Responses(calls[i][1].url) :
       LET answered == Answered(calls[i], r.status, IF Ok(r.status) THEN r.body ELSE <<>>)
       IN  IF r.status = 401
           THEN /\ calls' = [calls EXCEPT ![i] = Append(answered, TokenFetch(svc[i]))]
                /\ pc' = [pc EXCEPT ![i] = "refresh"]
                /\ UNCHANGED result
           ELSE IF ~Ok(r.status)
           THEN /\ calls' = [calls EXCEPT ![i] = answered]
                /\ pc' = [pc EXCEPT ![i] = "done"]
                /\ result' = [result EXCEPT ![i] = Thrown("Microsoft API error", r.status)]
           ELSE /\ calls' = [calls EXCEPT ![i] = answered]
                /\ pc' = [pc EXCEPT ![i] = "done"]
                /\ result' = [result EXCEPT ![i] =
                                IF r.json THEN Returned(r.status)
                                ELSE Thrown("SyntaxError", r.status)]
  /\ UNCHANGED <<svc, minted, started, pager, cache, since, last, otherVars>>

\* fault: the refresh_token of the response is never stored
Refreshed_ignoreRotation(service, grant) ==
  [accessToken |-> grant.access_token, refreshToken |-> service.refreshToken]

\* this.accessToken = access_token; if (refresh_token) this.refreshToken = refresh_token
Refreshed(service, grant) ==
  [accessToken |-> grant.access_token,
   refreshToken |-> IF Truthy(grant.refresh_token) THEN grant.refresh_token
                    ELSE service.refreshToken]

\* fault: a refused exchange is ignored and the retry issued with the old token
RefreshFailed_replay(i, status) ==
  /\ calls' = [calls EXCEPT ![i] =
                 Append(Answered(@, status, <<>>), ApiFetch(calls[i][1].url, svc[i]))]
  /\ pc' = [pc EXCEPT ![i] = "replay"]
  /\ UNCHANGED <<result, svc, minted>>

\* fault: a refused exchange clears the stored tokens before it throws
RefreshFailed_clearTokens(i, status) ==
  /\ calls' = [calls EXCEPT ![i] = Answered(@, status, <<>>)]
  /\ pc' = [pc EXCEPT ![i] = "done"]
  /\ result' = [result EXCEPT ![i] = Thrown("Failed to refresh access token", status)]
  /\ svc' = [svc EXCEPT ![i] = [accessToken |-> "", refreshToken |-> ""]]
  /\ UNCHANGED minted

\* if (!res.ok) throw: makeRequest's catch logs and rethrows
RefreshFailed(i, status) ==
  /\ calls' = [calls EXCEPT ![i] = Answered(@, status, <<>>)]
  /\ pc' = [pc EXCEPT ![i] = "done"]
  /\ result' = [result EXCEPT ![i] = Thrown("Failed to refresh access token", status)]
  /\ UNCHANGED <<svc, minted>>

\* the tokens are stored and makeRequest goes on to the retry, up to its await
RefreshSucceeded(i, status, grant) ==
  LET service == Refreshed(svc[i], grant)
      url == calls[i][1].url
  IN  /\ svc' = [svc EXCEPT ![i] = service]
      /\ minted' = minted + 1
      /\ calls' = [calls EXCEPT ![i] =
                     Append(Answered(@, status, <<grant>>), ApiFetch(url, service))]
      /\ pc' = [pc EXCEPT ![i] = "replay"]
      /\ UNCHANGED result

\* the token endpoint answers refreshAccessToken
RefreshResponse(i) ==
  /\ i \in DOMAIN pc /\ pc[i] = "refresh"
  /\ \E status \in TokenStatuses, rotated \in BOOLEAN :
       IF Ok(status)
       THEN RefreshSucceeded(i, status,
                             Grant(AccessToken(minted + 1),
                                   IF rotated THEN RefreshToken(minted + 1) ELSE Undefined))
       ELSE RefreshFailed(i, status)
  /\ UNCHANGED <<started, pager, cache, since, last, otherVars>>

\* fault: a 401 on the retry starts another refresh
ReplayResponse_refreshAgain(i) ==
  /\ i \in DOMAIN pc /\ pc[i] = "replay"
  /\ \E r \in Responses(calls[i][1].url) :
       IF r.status = 401
       THEN /\ calls' = [calls EXCEPT ![i] =
                           Append(Answered(@, r.status, r.body), TokenFetch(svc[i]))]
            /\ pc' = [pc EXCEPT ![i] = "refresh"]
            /\ UNCHANGED result
       ELSE /\ calls' = [calls EXCEPT ![i] = Answered(@, r.status, r.body)]
            /\ result' = [result EXCEPT ![i] =
                            IF r.json THEN Returned(r.status)
                            ELSE Thrown("SyntaxError", r.status)]
            /\ pc' = [pc EXCEPT ![i] = "done"]
  /\ UNCHANGED <<svc, minted, started, pager, cache, since, last, otherVars>>

\* the retry is answered: .then((res) => res.json())
ReplayResponse(i) ==
  /\ i \in DOMAIN pc /\ pc[i] = "replay"
  /\ \E r \in Responses(calls[i][1].url) :
       /\ calls' = [calls EXCEPT ![i] = Answered(@, r.status, r.body)]
       /\ result' = [result EXCEPT ![i] =
                       IF r.json THEN Returned(r.status)
                       ELSE Thrown("SyntaxError", r.status)]
  /\ pc' = [pc EXCEPT ![i] = "done"]
  /\ UNCHANGED <<svc, minted, started, pager, cache, since, last, otherVars>>

-----------------------------------------------------------------------------
(* src/api/MicrosoftService.ts: getUserCalendarEvents.  Each makeRequest of the *)
(* loop is an invocation of its own on the one service the call runs on.       *)

NoPager == [pc |-> "idle", requests |-> <<>>, events |-> <<>>]

\* fault: the events of a page replace the ones collected so far
Accumulate_lastPage(events, newEvents) ==
  IF newEvents # <<>> THEN newEvents[1] ELSE events

\* fault: the events of a page are pushed twice
Accumulate_twice(events, newEvents) ==
  IF newEvents # <<>> THEN events \o newEvents[1] \o newEvents[1] ELSE events

\* if (newEvents) events.push(...newEvents)
Accumulate(events, newEvents) ==
  IF newEvents # <<>> THEN events \o newEvents[1] ELSE events

\* a tool handler calls this.microsoftService.getUserCalendarEvents: the loop is
\* entered with initialUrl and makes its first request
GetUserCalendarEvents ==
  /\ pager.pc = "idle"
  /\ Start(microsoftService, initialUrl)
  /\ pager' = [pc |-> "awaiting", requests |-> <<Len(pc) + 1>>, events |-> <<>>]
  /\ UNCHANGED <<minted, cache, since, last, otherVars>>

\* the awaited makeRequest has settled: a rejection leaves the method; a value is
\* accumulated and the loop goes on while url is set
PageReturned ==
  /\ pager.pc = "awaiting"
  /\ LET i == pager.requests[Len(pager.requests)]
     IN  /\ pc[i] = "done"
         /\ IF result[i].kind = "error"
            THEN /\ pager' = [pager EXCEPT !.pc = "thrown"]
                 /\ UNCHANGED <<svc, calls, pc, result, started>>
            ELSE LET data == Data(i)
                     events == Accumulate(pager.events, data.value)
                     url == IF Truthy(data.nextLink) THEN data.nextLink ELSE Null
                 IN  IF Truthy(url)
                     THEN /\ Start(svc[i], url)
                          /\ pager' = [pc |-> "awaiting",
                                       requests |-> Append(pager.requests, Len(pc) + 1),
                                       events |-> events]
                     ELSE /\ pager' = [pc |-> "returned", requests |-> pager.requests,
                                       events |-> events]
                          /\ UNCHANGED <<svc, calls, pc, result, started>>
  /\ UNCHANGED <<minted, cache, since, last, otherVars>>

-----------------------------------------------------------------------------
(* Specifications *)

tokInit ==
  /\ svc = <<>>
  /\ pc = <<>>
  /\ calls = <<>>
  /\ result = <<>>
  /\ minted = 0
  /\ started = <<>>
  /\ pager = NoPager
  /\ gate = NoRequest
  /\ race = [h \in Racers |-> NotArrived]

Init ==
  /\ cache = EmptyMap
  /\ since = EmptyMap
  /\ last = Idle
  /\ tokInit

Next == Tick \/ CalendarNotify \/ Sent

Spec == Init /\ [][Next]_vars

InitHook ==
  /\ \E seed \in HookSeeds : cache = seed.cache /\ since = seed.since
  /\ last = Idle
  /\ tokInit

NextHook ==
  \/ PostEmailNotify
  \/ PostEmailLifecycle
  \/ PostCalendarNotify
  \/ PostCalendarLifecycle

SpecHook == InitHook /\ [][NextHook]_vars

NextAccounts == PostForAccount \/ Sent

SpecAccounts == Init /\ [][NextAccounts]_vars

NextRace == \E h \in Racers : RaceArrive(h) \/ RaceGet(h) \/ RacePut(h)

SpecRace == Init /\ [][NextRace]_vars

NextGate == Request

SpecGate == Init /\ [][NextGate]_vars

NextTtl == Tick \/ PutEvent

SpecTtl == Init /\ [][NextTtl]_vars

NextOutage == PostCalendarNotifyOutage

SpecOutage == InitHook /\ [][NextOutage]_vars

NextToken ==
  \E i \in Invocations :
    \/ Invoke(i)
    \/ FirstResponse(i)
    \/ RefreshResponse(i)
    \/ ReplayResponse(i)

SpecToken == Init /\ [][NextToken]_vars

NextPages ==
  \/ GetUserCalendarEvents
  \/ PageReturned
  \/ \E i \in 1..MaxPages :
       \/ FirstResponse(i)
       \/ RefreshResponse(i)
       \/ ReplayResponse(i)

SpecPages == Init /\ [][NextPages]_vars

\* every fetch is answered and every settled promise is continued
SpecPagesFair ==
  /\ SpecPages
  /\ WF_vars(PageReturned)
  /\ \A i \in 1..MaxPages :
       WF_vars(FirstResponse(i) \/ RefreshResponse(i) \/ ReplayResponse(i))

-----------------------------------------------------------------------------
(* Vocabulary of the properties: what the latest request did, item by item *)

Items == 1..Len(last.trace)
ItemOf(j) == last.trace[j].item

\* item j carries the configured secret and a resource id
Surviving(j) ==
  /\ ItemOf(j).clientState = MICROSOFT_WEBHOOK_SECRET
  /\ Truthy(ItemOf(j).id)

\* the notification item j delivers
Triple(j) == <<last.name, ItemOf(j).changeType, ItemOf(j).id>>

\* the cache when the handler has finished item j
After(j) == IF j < Len(last.trace) THEN last.trace[j + 1].before ELSE cache

\* when item j is reached the cache holds an unexpired entry of change type t for
\* the account and event of item j
Holds(j, t) ==
  CacheKey(Coalesce(last.name, "unknown"), t, ItemOf(j).id) \in DOMAIN last.trace[j].before

\* the notification was emitted less than DEBOUNCE_TTL seconds before this request
EmittedInWindow(triple) ==
  /\ triple \in DOMAIN last.sinceBefore
  /\ last.sinceBefore[triple] < DEBOUNCE_TTL

\* item j was not pushed to events and nothing was written for it
Suppressed(j) ==
  /\ ~last.trace[j].pushed
  /\ ~last.trace[j].put
  /\ After(j) = last.trace[j].before

\* item j was pushed, cached for DEBOUNCE_TTL seconds, and is in the processData
Accepted(j) ==
  /\ last.trace[j].pushed
  /\ last.trace[j].put
  /\ Holds(j, ItemOf(j).changeType) = FALSE
  /\ LET key == CacheKey(Coalesce(last.name, "unknown"), ItemOf(j).changeType, ItemOf(j).id)
     IN  key \in DOMAIN After(j) /\ After(j)[key].expires /\ After(j)[key].ttl = DEBOUNCE_TTL
  /\ Triple(j) \in Emitted(last.resp)

\* an earlier item of the same batch delivered the same event with change type t
\* and was pushed
PushedEarlier(j, t) ==
  \E i \in 1..(j - 1) :
    /\ Surviving(i) /\ last.trace[i].pushed
    /\ ItemOf(i).id = ItemOf(j).id /\ ItemOf(i).changeType = t

OnCalendarNotify == last.endpoint = "calendar-notify" /\ last.parsed

-----------------------------------------------------------------------------
(* Notification reconciliation *)

\* C1: a notification (accountName, changeType, eventId) that is delivered again
\* less than DEBOUNCE_TTL seconds after it was accepted, in a later request or later
\* in the same batch, is suppressed: it is not pushed, not cached and not emitted,
\* so of the two deliveries exactly the first is accepted.
C1_SelfDedup ==
  OnCalendarNotify =>
    \A j \in Items :
      Surviving(j) =>
        /\ EmittedInWindow(Triple(j)) =>
             Suppressed(j) /\ Triple(j) \notin Emitted(last.resp)
        /\ PushedEarlier(j, ItemOf(j).changeType) => Suppressed(j)

C1_Witness ==
  /\ OnCalendarNotify
  /\ \E j \in Items :
       /\ Surviving(j) /\ EmittedInWindow(Triple(j))
       /\ last.sinceBefore[Triple(j)] > 0
       /\ Suppressed(j)

\* C2: an incoming updated notification is suppressed (not pushed, not cached)
\* whenever the cache holds an unexpired created or deleted entry for the same
\* account and event; after created was emitted inside the window, updated is
\* not emitted.
C2_UpdatedSuppressed ==
  OnCalendarNotify =>
    \A j \in Items :
      (Surviving(j) /\ ItemOf(j).changeType = "updated") =>
        /\ (Holds(j, "created") \/ Holds(j, "deleted")) => Suppressed(j)
        /\ EmittedInWindow(<<last.name, "created", ItemOf(j).id>>) =>
             Suppressed(j) /\ Triple(j) \notin Emitted(last.resp)

C2_Witness ==
  /\ OnCalendarNotify
  /\ \E j \in Items :
       /\ Surviving(j) /\ ItemOf(j).changeType = "updated"
       /\ EmittedInWindow(<<last.name, "created", ItemOf(j).id>>)
       /\ Holds(j, "created") /\ ~Holds(j, "updated")
       /\ Suppressed(j)

\* C3: an incoming created notification is suppressed whenever the cache holds an
\* unexpired updated entry for the same account and event; after updated was
\* emitted inside the window, created is not emitted.
C3_CreatedSuppressed ==
  OnCalendarNotify =>
    \A j \in Items :
      (Surviving(j) /\ ItemOf(j).changeType = "created") =>
        /\ Holds(j, "updated") => Suppressed(j)
        /\ EmittedInWindow(<<last.name, "updated", ItemOf(j).id>>) =>
             Suppressed(j) /\ Triple(j) \notin Emitted(last.resp)

C3_Witness ==
  /\ OnCalendarNotify
  /\ \E j \in Items :
       /\ Surviving(j) /\ ItemOf(j).changeType = "created"
       /\ EmittedInWindow(<<last.name, "updated", ItemOf(j).id>>)
       /\ Holds(j, "updated") /\ ~Holds(j, "created")
       /\ Suppressed(j)

\* C4: an incoming deleted notification is suppressed whenever the cache holds an
\* unexpired updated entry for the same account and event; after updated was
\* emitted inside the window, deleted is not emitted.
C4_DeletedSuppressed ==
  OnCalendarNotify =>
    \A j \in Items :
      (Surviving(j) /\ ItemOf(j).changeType = "deleted") =>
        /\ Holds(j, "updated") => Suppressed(j)
        /\ EmittedInWindow(<<last.name, "updated", ItemOf(j).id>>) =>
             Suppressed(j) /\ Triple(j) \notin Emitted(last.resp)

C4_Witness ==
  /\ OnCalendarNotify
  /\ \E j \in Items :
       /\ Surviving(j) /\ ItemOf(j).changeType = "deleted"
       /\ EmittedInWindow(<<last.name, "updated", ItemOf(j).id>>)
       /\ Holds(j, "updated") /\ ~Holds(j, "deleted")
       /\ Suppressed(j)

C6_OnePerWindow ==
  OnCalendarNotify =>
    \A j \in Items :
      (Surviving(j) /\ last.trace[j].pushed) =>
        \A t \in ChangeTypes :
          /\ ~EmittedInWindow(<<last.name, t, ItemOf(j).id>>)
          /\ ~PushedEarlier(j, t)

\* C6 amended: when a notification is accepted less than DEBOUNCE_TTL seconds after
\* another one for the same account and event, the two are a created and a deleted:
\* no change type is accepted twice in a window and an accepted updated is alone
\* in its window.
C6_OnePerTypePerWindow ==
  OnCalendarNotify =>
    \A j \in Items :
      (Surviving(j) /\ last.trace[j].pushed) =>
        \A t \in ChangeTypes :
          (EmittedInWindow(<<last.name, t, ItemOf(j).id>>) \/ PushedEarlier(j, t)) =>
            {t, ItemOf(j).changeType} = {"created", "deleted"}

C6_Witness ==
  /\ OnCalendarNotify
  /\ \E j \in Items :
       /\ Surviving(j) /\ ItemOf(j).changeType = "deleted" /\ Accepted(j)
       /\ EmittedInWindow(<<last.name, "created", ItemOf(j).id>>)

-----------------------------------------------------------------------------
(* Webhook validation *)

\* the route table of /webhooks
Route(endpoint, kv, validationToken, name, body) ==
  IF endpoint = "email-notify" THEN EmailNotifyHandler(kv, validationToken, name, body)
  ELSE IF endpoint = "email-lifecycle"
    THEN EmailLifecycleHandler(kv, validationToken, name, body)
  ELSE IF endpoint = "calendar-notify"
    THEN CalendarNotifyHandler(kv, validationToken, name, body)
  ELSE CalendarLifecycleHandler(kv, validationToken, name, body)

HasSecret(bodyValue) == bodyValue.clientState = MICROSOFT_WEBHOOK_SECRET

\* the batch of the latest request without the items of a wrong clientState
WithoutForeign == Json(SelectSeq(last.body.value, HasSecret))

\* C7: on each of the four receivers, an item whose clientState is not the
\* configured secret is not pushed, causes no cache read and no cache write, and
\* the response and the cache are the ones the batch without such items gives: the
\* item is not emitted and the other items are processed as if it were absent.
C7_ForeignItemsDropped ==
  (last.endpoint # "none" /\ last.parsed) =>
    /\ \A j \in Items :
         ~HasSecret(ItemOf(j)) =>
           /\ last.trace[j].reads = <<>>
           /\ Suppressed(j)
    /\ LET clean == Route(last.endpoint, last.before, last.validationToken, last.name,
                          WithoutForeign)
       IN  /\ last.resp = clean.resp
           /\ cache = clean.cache

C7_Witness ==
  /\ last.endpoint = "calendar-notify" /\ last.parsed
  /\ \E j \in Items : \E k \in Items :
       /\ j < k
       /\ ~HasSecret(ItemOf(j)) /\ Suppressed(j)
       /\ ItemOf(j).id = ItemOf(k).id /\ ItemOf(j).changeType = ItemOf(k).changeType
       /\ Surviving(k) /\ Accepted(k)

\* what the handshake answers: 200, text, the token; the body is not parsed, no
\* item is looked at and the cache is neither read nor written
HandshakeAnswered ==
  /\ last.resp = [http |-> 200, reqResponseCode |-> 200,
                  reqResponseContent |-> last.validationToken,
                  reqResponseContentType |-> "text", processData |-> <<>>]
  /\ ~last.parsed
  /\ last.trace = <<>>
  /\ cache = last.before

-----------------------------------------------------------------------------
(* Token refresh and replay *)

\* C9: one makeRequest call issues its fetches in this shape and no other: the
\* request; after a 401 on it, and only then, one exchange at the token endpoint;
\* after a successful exchange, and only then, one replay of the same url; whatever
\* the replay is answered, 401 included, the call is over.
C9_RefreshAndReplayOnce ==
  \A i \in DOMAIN pc :
    LET h == calls[i]
    IN  /\ Len(h) >= 1 /\ Len(h) <= 3
        /\ h[1].to = "api"
        /\ (h[1].status = 401) <=> (Len(h) >= 2)
        /\ Len(h) >= 2 => h[2].to = "token"
        /\ (Len(h) >= 2 /\ Ok(h[2].status)) <=> (Len(h) = 3)
        /\ Len(h) = 3 => /\ h[3].to = "api"
                          /\ h[3].url = h[1].url
                          /\ (h[3].status # 0 => pc[i] = "done")
        /\ pc[i] = "done" <=> h[Len(h)].status # 0

C9_Witness ==
  \E i \in DOMAIN pc :
    /\ pc[i] = "done"
    /\ Len(calls[i]) = 3
    /\ calls[i][1].status = 401 /\ calls[i][2].to = "token" /\ calls[i][3].status = 401

\* C10: a makeRequest call whose replay was answered 401 ends in a failure.
C10_ReplayUnauthorizedFails ==
  \A i \in DOMAIN pc :
    (pc[i] = "done" /\ Len(calls[i]) = 3 /\ calls[i][3].status = 401) =>
      result[i].kind = "error"

\* C11: when the token endpoint answers the exchange of a makeRequest call with a
\* status that is not 2xx, the call is over: it rejects with the refresh error,
\* the original request is not fetched again and no second exchange is made.
C11_RefreshFailureSurfaced ==
  \A i \in DOMAIN pc :
    (Len(calls[i]) >= 2 /\ calls[i][2].status # 0 /\ ~Ok(calls[i][2].status)) =>
      /\ pc[i] = "done"
      /\ result[i] = Thrown("Failed to refresh access token", calls[i][2].status)
      /\ Len(calls[i]) = 2
      /\ calls[i][1].to = "api" /\ calls[i][2].to = "token"

C11_Witness ==
  \E i \in DOMAIN pc :
    /\ pc[i] = "done"
    /\ Len(calls[i]) = 2
    /\ calls[i][1].status = 401
    /\ calls[i][2].to = "token" /\ calls[i][2].status = 400
    /\ result[i].kind = "error"

\* C12: after a successful exchange the service holds the access token of the
\* response, which is not the one the first fetch carried; it holds the
\* refresh_token of the response when there is one, and the refresh token it sent
\* when there is none; the replay carries the access token of the response.
C12_TokensReplaced ==
  \A i \in DOMAIN pc :
    (Len(calls[i]) >= 2 /\ Ok(calls[i][2].status)) =>
      LET grant == calls[i][2].body[1]
          old == calls[i][2].sent
      IN  /\ svc[i].accessToken = grant.access_token
          /\ grant.access_token # calls[i][1].sent
          /\ Truthy(grant.refresh_token) =>
               svc[i].refreshToken = grant.refresh_token /\ svc[i].refreshToken # old
          /\ ~Truthy(grant.refresh_token) => svc[i].refreshToken = old
          /\ Len(calls[i]) = 3
          /\ calls[i][3].to = "api"
          /\ calls[i][3].sent = grant.access_token

C12_Witness ==
  \E i \in DOMAIN pc : \E j \in DOMAIN pc :
    /\ Len(calls[i]) = 3 /\ Len(calls[j]) = 3
    /\ Truthy(calls[i][2].body[1].refresh_token)
    /\ svc[i].refreshToken = calls[i][2].body[1].refresh_token
    /\ calls[i][3].sent = calls[i][2].body[1].access_token
    /\ ~Truthy(calls[j][2].body[1].refresh_token)
    /\ svc[j].refreshToken = props.refreshToken
    /\ calls[j][3].sent = calls[j][2].body[1].access_token

\* C13: at no time are two exchanges at the token endpoint awaited in one session.
C13_OneRefreshInFlight ==
  \A i \in DOMAIN pc : \A j \in DOMAIN pc :
    (pc[i] = "refresh" /\ pc[j] = "refresh") => i = j

\* C14: an invocation that begins after an exchange has succeeded sends the latest
\* access token the session was issued, and when a newer refresh token had been
\* issued by then, its own exchange does not send the one the session started with.
C14_RefreshedTokenKept ==
  \A i \in DOMAIN pc :
    /\ calls[i][1].sent = started[i].accessToken
    /\ (Len(calls[i]) >= 2 /\ started[i].refreshToken # props.refreshToken) =>
         calls[i][2].sent # props.refreshToken

\* C15: an invocation that begins after an exchange of the session was refused
\* makes no exchange at the token endpoint.
C15_FailedIsTerminal ==
  \A i \in DOMAIN pc :
    started[i].failed => \A k \in DOMAIN calls[i] : calls[i][k].to # "token"

-----------------------------------------------------------------------------
(* Pagination *)

\* the items of the first k pages the call was answered with, in page order
RECURSIVE Served(_)
Served(k) ==
  IF k = 0 THEN <<>>
  ELSE LET value == Data(pager.requests[k]).value
       IN  Served(k - 1) \o (IF value = <<>> THEN <<>> ELSE value[1])

\* C16: when getUserCalendarEvents has returned and no fetch was answered 401, it
\* made one fetch per page and no other, each page but the last carried the link
\* the next fetch went to, the last page carried none, and the value returned is
\* the items of all the pages in page order.
C16_Pagination ==
  LET n == Len(pager.requests)
      req(k) == calls[pager.requests[k]]
      link(k) == Data(pager.requests[k]).nextLink
  IN  (pager.pc = "returned" /\ \A k \in 1..n : req(k)[1].status # 401) =>
        /\ Len(calls) = n
        /\ \A k \in 1..n : Len(req(k)) = 1 /\ Ok(req(k)[1].status)
        /\ req(1)[1].url = initialUrl
        /\ \A k \in 1..(n - 1) : Truthy(link(k)) /\ req(k + 1)[1].url = link(k)
        /\ ~Truthy(link(n))
        /\ pager.events = Served(n)

C16_Witness ==
  /\ pager.pc = "returned"
  /\ Len(pager.requests) = 3
  /\ \A k \in 1..3 : Len(calls[pager.requests[k]]) = 1
  /\ pager.events = <<"a", "b", "c", "a">>

-----------------------------------------------------------------------------
(* Upstream errors *)

\* C17: every answer of the Graph API with a status that is neither 2xx nor 401,
\* to the first fetch or to the replay, ends the makeRequest call with an error
\* that carries the status; no fetch follows it.
C17_UpstreamErrorSurfaced ==
  \A i \in DOMAIN pc : \A k \in DOMAIN calls[i] :
    LET f == calls[i][k]
    IN  (f.to = "api" /\ f.status \notin {0, 401} /\ ~Ok(f.status)) =>
          /\ k = Len(calls[i])
          /\ pc[i] = "done"
          /\ result[i].kind = "error"
          /\ result[i].status = f.status

-----------------------------------------------------------------------------
(* Cache failure *)

\* C18: a calendar-notify request whose batch is processed while KV operations
\* reject is answered with the 202 acknowledgement; an item whose lookup rejected
\* is accepted.
C18_CacheFailOpen ==
  (last.endpoint = "calendar-notify" /\ last.parsed) =>
    /\ last.resp.http = 200
    /\ last.resp.reqResponseCode = 202
    /\ \A j \in Items : last.trace[j].raised = "get" => last.trace[j].pushed

-----------------------------------------------------------------------------
(* Lifecycle notifications *)

OnLifecycle ==
  /\ last.endpoint \in {"email-lifecycle", "calendar-lifecycle"}
  /\ last.parsed

NotMissed(bodyValue) == bodyValue.lifecycleEvent # "missed"

\* the item carries the secret and a lifecycleEvent other than "missed"
Kept(bodyValue) ==
  /\ HasSecret(bodyValue)
  /\ Truthy(bodyValue.lifecycleEvent)
  /\ NotMissed(bodyValue)

\* the batch of the latest request without its "missed" items
WithoutMissed == Json(SelectSeq(last.body.value, NotMissed))

\* the events of the processData of the latest response
Handed == IF last.resp.processData = <<>> THEN <<>> ELSE last.resp.processData[1].events

\* C19: on both lifecycle receivers a "missed" item is not pushed and "missed" is
\* in no processData; a batch of "missed" items only is answered 202 without
\* processData; the response is the one the batch without its "missed" items
\* gives, and for a request that names its account the events handed on are the
\* lifecycleEvents of the other items that carry the secret, in order.
C19_MissedFiltered ==
  OnLifecycle =>
    LET kept == SelectSeq(last.body.value, Kept)
    IN  /\ last.resp.reqResponseCode = 202
        /\ \A j \in Items : ~NotMissed(ItemOf(j)) => ~last.trace[j].pushed
        /\ \A k \in DOMAIN Handed : Handed[k] # "missed"
        /\ (\A j \in Items : ~NotMissed(ItemOf(j))) => last.resp = Acknowledge(<<>>)
        /\ last.resp = Route(last.endpoint, last.before, last.validationToken, last.name,
                             WithoutMissed).resp
        /\ Truthy(last.name) =>
             /\ Len(Handed) = Len(kept)
             /\ \A k \in DOMAIN Handed : Handed[k] = kept[k].lifecycleEvent

C19_Witness ==
  /\ last.endpoint = "email-lifecycle" /\ last.parsed
  /\ Len(last.body.value) = 2
  /\ HasSecret(last.body.value[1]) /\ last.body.value[1].lifecycleEvent = "missed"
  /\ Kept(last.body.value[2])
  /\ Handed = <<last.body.value[2].lifecycleEvent>>

\* C20: a request to a lifecycle receiver leaves the cache as it was and no item of
\* it causes a cache read or write; every item that carries the secret and a
\* lifecycleEvent other than "missed" is pushed, whatever the cache holds and
\* whatever came before it in the batch, and the same request again, on the cache
\* it left or on an empty one, gets the same response.
C20_LifecycleBypassesCache ==
  last.endpoint \in {"email-lifecycle", "calendar-lifecycle"} =>
    /\ cache = last.before
    /\ \A j \in Items : last.trace[j].reads = <<>> /\ ~last.trace[j].put
    /\ \A j \in Items : After(j) = last.before
    /\ \A j \in Items : Kept(ItemOf(j)) => last.trace[j].pushed
    /\ last.resp = Route(last.endpoint, cache, last.validationToken, last.name,
                         last.body).resp
    /\ last.resp = Route(last.endpoint, EmptyMap, last.validationToken, last.name,
                         last.body).resp

C20_Witness ==
  /\ last.endpoint = "calendar-lifecycle" /\ last.parsed
  /\ last.before # EmptyMap
  /\ Len(last.body.value) = 2
  /\ last.body.value[1] = last.body.value[2]
  /\ Kept(last.body.value[1])
  /\ Len(Handed) = 2
  /\ cache = last.before

-----------------------------------------------------------------------------
(* Acknowledgement *)

\* C21: on each receiver a request whose body is parsed (no validationToken
\* acted on, JSON body) is answered 202 with content {"ok":true}, and when no
\* item of its batch was pushed the response carries no processData.
C21_ZeroAccepted ==
  (last.endpoint # "none" /\ last.parsed) =>
    /\ last.resp.http = 200
    /\ last.resp.reqResponseCode = 202
    /\ last.resp.reqResponseContent = "{\"ok\":true}"
    /\ last.resp.reqResponseContentType = "json"
    /\ (\A j \in Items : ~last.trace[j].pushed) => last.resp.processData = <<>>

C21_Witness ==
  /\ OnCalendarNotify
  /\ Truthy(last.name)
  /\ Len(last.body.value) = 2
  /\ \A j \in Items : ~last.trace[j].pushed
  /\ \E j \in Items : ~HasSecret(ItemOf(j))
  /\ \E j \in Items : Surviving(j) /\ last.trace[j].reads # <<>>
  /\ last.resp = Acknowledge(<<>>)

ClientStates == {MICROSOFT_WEBHOOK_SECRET, "wrong"}

\* the batches that differ from bodyValues in clientState values only
Relabelled(bodyValues) ==
  {[k \in 1..Len(bodyValues) |-> [bodyValues[k] EXCEPT !.clientState = relabel[k]]] :
     relabel \in [1..Len(bodyValues) -> ClientStates]}

\* C22: on each receiver, the response to a parsed request and the response to
\* the same request with other clientState values in its items have the same
\* reqResponseCode and reqResponseContent.
C22_ValidationNotLeaked ==
  (last.endpoint # "none" /\ last.parsed) =>
    \A bodyValues \in Relabelled(last.body.value) :
      LET other == Route(last.endpoint, last.before, last.validationToken, last.name,
                         Json(bodyValues)).resp
      IN  /\ other.http = last.resp.http
          /\ other.reqResponseCode = last.resp.reqResponseCode
          /\ other.reqResponseContent = last.resp.reqResponseContent

C22_Witness ==
  /\ last.endpoint = "email-notify" /\ last.parsed
  /\ last.resp.processData = <<>>
  /\ \E bodyValues \in Relabelled(last.body.value) :
       LET other == Route(last.endpoint, last.before, last.validationToken, last.name,
                          Json(bodyValues)).resp
       IN  /\ other.processData # <<>>
           /\ other.reqResponseCode = last.resp.reqResponseCode
           /\ other.reqResponseContent = last.resp.reqResponseContent

-----------------------------------------------------------------------------
(* Email notifications, grouping *)

\* C23: of two items of an email-notify batch that deliver the same notification
\* (clientState valid, same changeType and resource id) at most one is pushed.
C23_EmailSelfDedup ==
  (last.endpoint = "email-notify" /\ last.parsed) =>
    \A j \in Items : \A k \in Items :
      ( /\ j < k
        /\ Surviving(j) /\ Surviving(k)
        /\ ItemOf(j).id = ItemOf(k).id
        /\ ItemOf(j).changeType = ItemOf(k).changeType )
      => ~(last.trace[j].pushed /\ last.trace[k].pushed)

\* C24: when a calendar-notify or email-notify response carries processData, every
\* item that was pushed has the subscriptionId the processData is reported under.
C24_GroupedBySubscription ==
  (last.endpoint \in {"calendar-notify", "email-notify"} /\ last.parsed
     /\ last.resp.processData # <<>>) =>
    \A j \in Items :
      last.trace[j].pushed => ItemOf(j).subscriptionId = last.resp.processData[1].subscriptionId

-----------------------------------------------------------------------------
(* Cache namespace *)

\* C25: a notification is suppressed only when a notification for the same
\* account name and event was accepted before it: an acceptance for one account
\* name suppresses nothing delivered for another.
C25_PartitionedByAccount ==
  OnCalendarNotify =>
    \A j \in Items :
      (Surviving(j) /\ ~last.trace[j].pushed) =>
        \E t \in ChangeTypes : <<last.name, t, ItemOf(j).id>> \in DOMAIN last.sinceBefore

-----------------------------------------------------------------------------
(* Cache contents under sequential processing *)

\* the events of the notification stream
StreamEvents == {item.id : item \in StreamItems}

\* kv holds no unexpired updated entry next to an unexpired created or deleted
\* entry of the same account and event
UpdatedApart(kv) ==
  \A eventId \in StreamEvents :
    ~ /\ CacheKey("A", "updated", eventId) \in DOMAIN kv
      /\ \/ CacheKey("A", "created", eventId) \in DOMAIN kv
         \/ CacheKey("A", "deleted", eventId) \in DOMAIN kv

\* C29: with requests handled one after the other, the cache never holds an
\* unexpired updated entry together with an unexpired created or deleted entry of
\* the same (accountName, eventId): not between requests and not between the
\* items of a batch.
C29_UpdatedExcludesOthers ==
  /\ UpdatedApart(cache)
  /\ \A j \in Items : UpdatedApart(last.trace[j].before)

\* an updated notification arrives while created and deleted entries of its event
\* are held, and a created one arrives while the updated entry is held
C29_Witness ==
  /\ OnCalendarNotify
  /\ \E j \in Items :
       /\ ItemOf(j).changeType = "updated"
       /\ Holds(j, "created") /\ Holds(j, "deleted")
       /\ CacheKey("A", "updated", ItemOf(j).id) \notin DOMAIN After(j)
  /\ \E j \in Items :
       /\ ItemOf(j).changeType = "created"
       /\ Holds(j, "updated")
       /\ CacheKey("A", "created", ItemOf(j).id) \notin DOMAIN After(j)

-----------------------------------------------------------------------------
(* Frame of a suppressed or dropped notification *)

\* items the loop drops: a foreign clientState or no resource id
DroppedItems == {item \in HookChangeItems : Rejected(item) \/ ~Truthy(item.id)}

\* kv holds the entry of every notification accepted less than DEBOUNCE_TTL
\* seconds ago with what is left of the window that began at the acceptance, and
\* no entry of a notification accepted longer ago
MeasuredFromAcceptance(kv, history) ==
  \A triple \in DOMAIN history :
    LET key == CacheKey(triple[1], triple[2], triple[3])
    IN  IF history[triple] < DEBOUNCE_TTL
        THEN /\ key \in DOMAIN kv
             /\ kv[key].expires
             /\ kv[key].ttl = DEBOUNCE_TTL - history[triple]
        ELSE key \notin DOMAIN kv

\* C30: a calendar notification that is not accepted leaves the cache as it was:
\* no entry is written and the time to live of the entry that suppressed it is not
\* renewed, so every entry expires DEBOUNCE_TTL seconds after the last acceptance
\* of its notification; a dropped item leaves any reachable cache unchanged too.
C30_SuppressedLeavesCache ==
  /\ OnCalendarNotify =>
       \A j \in Items : ~last.trace[j].pushed => Suppressed(j)
  /\ MeasuredFromAcceptance(cache, since)
  /\ \A item \in DroppedItems :
       LET out == CalendarNotifyHandler(cache, Null, "A", Json(<<item>>))
       IN  out.cache = cache /\ out.resp.processData = <<>>

\* a notification accepted earlier is delivered again part-way through its window
\* and suppressed: the entry keeps the remainder of the window
C30_Witness ==
  /\ OnCalendarNotify
  /\ \E j \in Items :
       LET key == CacheKey("A", ItemOf(j).changeType, ItemOf(j).id)
       IN  /\ Surviving(j) /\ ~last.trace[j].pushed
           /\ Triple(j) \in DOMAIN last.sinceBefore
           /\ last.sinceBefore[Triple(j)] > 0
           /\ last.sinceBefore[Triple(j)] < DEBOUNCE_TTL
           /\ key \in DOMAIN cache
           /\ cache[key].ttl = DEBOUNCE_TTL - last.sinceBefore[Triple(j)]
           /\ cache[key].ttl < DEBOUNCE_TTL

-----------------------------------------------------------------------------
(* Time to live of an entry *)

\* every entry putEventCache wrote is in kv for lifetime(ttl) seconds from the
\* write and no longer, an entry written with null for good; history has the
\* seconds since each write, up to DEBOUNCE_TTL
LivesFor(kv, history, lifetime(_)) ==
  \A case \in TtlCases :
    LET key == CacheKey("A", "created", case[1])
        written == <<"A", "created", case[1]>>
    IN  written \in DOMAIN history =>
          IF case[2].kind = "null"
          THEN key \in DOMAIN kv /\ ~kv[key].expires
          ELSE IF history[written] < lifetime(case[2])
          THEN /\ key \in DOMAIN kv /\ kv[key].expires
               /\ kv[key].ttl = lifetime(case[2]) - history[written]
          ELSE key \notin DOMAIN kv

\* the lifetime as the helper selects it
HelperLifetime(ttl) == IF ttl.kind = "undefined" THEN 60 ELSE ttl.n

\* the lifetime with the debounce window as the default
WindowLifetime(ttl) == IF ttl.kind = "undefined" THEN DEBOUNCE_TTL ELSE ttl.n

\* C27 (as stated): an entry written without an explicit TTL expires after the
\* debounce window of DEBOUNCE_TTL seconds; null gives no expiration; a number is
\* used as given.
C27_DefaultIsWindow == LivesFor(cache, since, WindowLifetime)

\* C27 (amended): an entry written without an explicit TTL expires after the
\* helper's own default of 60 seconds; an explicit null gives no expiration,
\* unlike an omitted argument; an explicit number is used as given.
C27_TtlSelection == LivesFor(cache, since, HelperLifetime)

\* all forms have been written and time has passed: the entry written without a
\* TTL is gone, the one written with null is there after a full window, the one
\* written with DEBOUNCE_TTL has part of its window left
C27_Witness ==
  /\ <<"A", "created", "E1">> \in DOMAIN since
  /\ CacheKey("A", "created", "E1") \notin DOMAIN cache
  /\ since[<<"A", "created", "E1">>] < DEBOUNCE_TTL
  /\ <<"A", "created", "E2">> \in DOMAIN since
  /\ since[<<"A", "created", "E2">>] = DEBOUNCE_TTL
  /\ CacheKey("A", "created", "E2") \in DOMAIN cache
  /\ CacheKey("A", "created", "E5") \in DOMAIN cache
  /\ cache[CacheKey("A", "created", "E5")].ttl < DEBOUNCE_TTL

-----------------------------------------------------------------------------
(* Bearer gate *)

\* the routes the gate protects
ProtectedPaths ==
  {<<"mcp">>, <<"sse", "message">>}
    \cup {<<"webhooks", receiver, "process">> : receiver \in Receivers}

\* the Authorization header is missing or does not start with "Bearer "
NoBearer(header) == ~header.present \/ header.head # "Bearer "

-----------------------------------------------------------------------------
(* Concurrent requests *)

\* handler h has answered and every lookup it made found nothing
AllAbsent(h) ==
  /\ race[h].pc = "done"
  /\ Len(race[h].seen) = Len(Lookups(race[h].item[1].changeType))
  /\ \A k \in 1..Len(race[h].seen) : ~race[h].seen[k]

\* the response of handler h hands on the event it was sent
EmittedBy(h) ==
  /\ race[h].resp # <<>>
  /\ race[h].resp[1].processData # <<>>
  /\ race[h].resp[1].processData[1].events =
       <<[eventId |-> race[h].item[1].id, eventType |-> race[h].item[1].changeType]>>

\* C26: the lookups and the put of a calendar-notify handler are separate steps:
\* a handler whose lookups all found nothing accepts and emits its notification
\* whatever another handler has written since, and a handler accepts only so; two
\* handlers sent the same triple can therefore both accept it (C26_Witness).
C26_CheckThenPut ==
  \A h \in Racers :
    race[h].pc = "done" =>
      /\ AllAbsent(h) <=> race[h].pushed
      /\ race[h].pushed <=> EmittedBy(h)
      /\ race[h].pushed =>
           CacheKey("A", race[h].item[1].changeType, race[h].item[1].id) \in DOMAIN cache

\* two handlers were sent the same notification, the lookups of both found
\* nothing, and both accepted and emitted it
C26_Witness ==
  /\ race[1].pc = "done" /\ race[2].pc = "done"
  /\ race[1].item = race[2].item
  /\ AllAbsent(1) /\ AllAbsent(2)
  /\ race[1].pushed /\ race[2].pushed
  /\ EmittedBy(1) /\ EmittedBy(2)

-----------------------------------------------------------------------------
(* Cache writes and emitted events *)

\* C31: every notification a calendar-notify request writes a cache entry for is
\* in the processData the request returns, also when the x-mcp-name header is
\* missing.
C31_PutImpliesEmitted ==
  OnCalendarNotify =>
    \A j \in Items : last.trace[j].put => Triple(j) \in Emitted(last.resp)

\* C32: a created or deleted notification whose own entry and whose updated
\* entry are not cached is accepted, whether or not the other of the two is
\* cached: created then deleted, and deleted then created, inside one window are
\* both accepted.
C32_CreatedDeletedIndependent ==
  OnCalendarNotify =>
    \A j \in Items :
      ( /\ Surviving(j)
        /\ ItemOf(j).changeType \in {"created", "deleted"}
        /\ ~Holds(j, ItemOf(j).changeType)
        /\ ~Holds(j, "updated") ) => Accepted(j)

\* one batch has a deleted accepted inside the window of the created of its event
\* and a created accepted inside the window of the deleted of its event
C32_Witness ==
  /\ OnCalendarNotify
  /\ \E j \in Items :
       /\ ItemOf(j).changeType = "deleted" /\ Holds(j, "created")
       /\ EmittedInWindow(<<last.name, "created", ItemOf(j).id>>)
       /\ Accepted(j)
  /\ \E j \in Items :
       /\ ItemOf(j).changeType = "created" /\ Holds(j, "deleted")
       /\ EmittedInWindow(<<last.name, "deleted", ItemOf(j).id>>)
       /\ Accepted(j)

-----------------------------------------------------------------------------
(* Pagination: failures and termination *)

\* the fetch that ended the k-th makeRequest of the getUserCalendarEvents call
FinalFetch(k) ==
  LET fetches == calls[pager.requests[k]]
  IN  fetches[Len(fetches)]

\* C33: getUserCalendarEvents returns a list only when every page request of the
\* chain ended in a 2xx response of the Graph API, directly or on its replay.
C33_NoSilentTruncation ==
  pager.pc = "returned" =>
    \A k \in 1..Len(pager.requests) :
      FinalFetch(k).to = "api" /\ Ok(FinalFetch(k).status)

\* the loop as far as it has come: a page request makes at most one exchange and
\* one replay of the same url, each request after the first went to the link the
\* page before it ended with, and the events are the items of the pages received
\* so far, each once, in page order
LoopSoFar ==
  LET n == Len(pager.requests)
      req(k) == calls[pager.requests[k]]
      settled == IF pager.pc = "returned" THEN n ELSE n - 1
  IN  pager.pc # "idle" =>
        /\ \A k \in 1..n :
             /\ Len(req(k)) <= 3
             /\ Len(req(k)) >= 2 => req(k)[1].status = 401 /\ req(k)[2].to = "token"
             /\ Len(req(k)) = 3 =>
                  /\ Ok(req(k)[2].status)
                  /\ req(k)[3].to = "api" /\ req(k)[3].url = req(k)[1].url
        /\ \A k \in 1..(n - 1) :
             /\ Truthy(Data(pager.requests[k]).nextLink)
             /\ req(k + 1)[1].url = Data(pager.requests[k]).nextLink
        /\ pager.events = Served(settled)
        /\ pager.pc = "returned" => ~Truthy(Data(pager.requests[n]).nextLink)

\* C36: when every fetch is answered, a getUserCalendarEvents call that has begun
\* returns or throws; and at every point of the loop a page answered 401 has had
\* one exchange and one replay, after which the loop went on to the link of the
\* replayed page with the items collected before kept and the items of each page
\* added once.
C36_LoopTerminates ==
  /\ []LoopSoFar
  /\ (pager.pc = "awaiting") ~> (pager.pc \in {"returned", "thrown"})

\* three pages were fetched, the second one answered 401, exchanged and replayed,
\* and the call returned the items of all three
C36_Witness ==
  /\ pager.pc = "returned"
  /\ Len(pager.requests) = 3
  /\ Len(calls[pager.requests[1]]) = 1
  /\ Len(calls[pager.requests[2]]) = 3
  /\ Ok(calls[pager.requests[2]][3].status)
  /\ Len(calls[pager.requests[3]]) = 1
  /\ \A k \in 1..3 : Data(pager.requests[k]).value # <<>>
  /\ pager.events = Served(3)
  /\ Len(pager.events) >= 3

-----------------------------------------------------------------------------
(* Refused token exchange *)

\* the token exchange of makeRequest call i was refused
RefreshRefused(i) ==
  /\ Len(calls[i]) >= 2
  /\ calls[i][2].to = "token"
  /\ calls[i][2].status # 0
  /\ ~Ok(calls[i][2].status)

\* C34: when the token endpoint answers a refresh with a status that is not 2xx,
\* the service keeps the access token and the refresh token it had when the
\* refresh started: the access token its 401 fetch was sent with and the refresh
\* token the exchange was sent with.
C34_FailedRefreshKeepsTokens ==
  \A i \in DOMAIN calls :
    RefreshRefused(i) =>
      /\ svc[i].accessToken = calls[i][1].sent
      /\ svc[i].refreshToken = calls[i][2].sent
      /\ Len(calls[i]) = 2

\* the exchange is refused on a service whose tokens an earlier page's exchange
\* had replaced
C34_Witness ==
  \E i \in DOMAIN calls :
    /\ RefreshRefused(i)
    /\ svc[i].accessToken = AccessToken(1)
    /\ svc[i].refreshToken = RefreshToken(1)
    /\ pager.pc = "thrown"

-----------------------------------------------------------------------------
(* Emitted events of a batch *)

\* when item j is reached the cache holds an entry that suppresses it: one of its
\* own change type, or one of the change type the table sets against it
Hit(j) ==
  \/ Holds(j, ItemOf(j).changeType)
  \/ ItemOf(j).changeType = "updated" /\ (Holds(j, "created") \/ Holds(j, "deleted"))
  \/ ItemOf(j).changeType \in {"created", "deleted"} /\ Holds(j, "updated")

\* the events of the first j items that carry the secret and a resource id and
\* are not suppressed, in batch order
RECURSIVE Passing(_)
Passing(j) ==
  IF j = 0 THEN <<>>
  ELSE Passing(j - 1) \o
         (IF Surviving(j) /\ ~Hit(j)
          THEN <<[eventId |-> ItemOf(j).id, eventType |-> ItemOf(j).changeType]>>
          ELSE <<>>)

\* the events list of the latest response
EmittedEvents ==
  IF last.resp.processData = <<>> THEN <<>> ELSE last.resp.processData[1].events

\* C35: the events a calendar-notify request emits are the batch items that
\* carry the secret and a resource id and are not suppressed, in batch order, each
\* item once.
C35_EmittedAreThePassing ==
  OnCalendarNotify => EmittedEvents = Passing(Len(last.trace))

-----------------------------------------------------------------------------
(* Items without a resource id or a lifecycleEvent *)

\* the item has what its receiver reads from it: a change notification its
\* resourceData.id, a lifecycle notification its lifecycleEvent
Complete(bodyValue) ==
  IF last.endpoint \in {"email-notify", "calendar-notify"} THEN Truthy(bodyValue.id)
  ELSE Truthy(bodyValue.lifecycleEvent)

\* the batch of the latest request without its incomplete items
WithoutIncomplete == Json(SelectSeq(last.body.value, Complete))

\* C37: on every receiver an item without a resource id (change notifications)
\* or without a lifecycleEvent (lifecycle notifications) is not pushed and causes
\* no cache read and no cache write, and the response, its subscriptionId
\* included, and the cache are the ones the batch without such items gives.
C37_IncompleteItemsDropped ==
  (last.endpoint # "none" /\ last.parsed) =>
    /\ \A j \in Items :
         ~Complete(ItemOf(j)) =>
           /\ last.trace[j].reads = <<>>
           /\ Suppressed(j)
    /\ LET clean == Route(last.endpoint, last.before, last.validationToken, last.name,
                          WithoutIncomplete)
       IN  /\ last.resp = clean.resp
           /\ cache = clean.cache

\* an item of subscription S2 without a resource id comes before an accepted item
\* of subscription S1: the processData is that of S1
C37_Witness ==
  /\ last.endpoint \in {"email-notify", "calendar-notify"} /\ last.parsed
  /\ Len(last.body.value) = 2
  /\ HasSecret(ItemOf(1)) /\ ~Truthy(ItemOf(1).id) /\ ItemOf(1).subscriptionId = "S2"
  /\ Suppressed(1)
  /\ ItemOf(2).subscriptionId = "S1" /\ last.trace[2].pushed
  /\ last.resp.processData # <<>>
  /\ last.resp.processData[1].subscriptionId = "S1"

====
